---- MODULE Spec2Model ----
(***************************************************************************)
(* Model of climate_data_science_functions.py: the numeric helpers         *)
(* weighted_average, coslat_area_avg, coslat_weight, symmetric_cf_levels.  *)
(*                                                                         *)
(* Numbers are exact rationals <<n, d>> in lowest terms with d > 0.  The   *)
(* IEEE special values the array library produces are kept:                *)
(*   <<0, 0>> is NaN (the missing value), <<1, 0>> / <<-1, 0>> are +-inf.  *)
(* A DataArray is a record [lat, lon, values] with values[i][j] the cell   *)
(* at latitude lat[i] and longitude lon[j].                                *)
(***************************************************************************)
EXTENDS Integers, Sequences, FiniteSets, TLC

VARIABLES da, weights, lat_bnds, nlevels, called, weighted, avg, levels

vars == <<da, weights, lat_bnds, nlevels, called, weighted, avg, levels>>

---------------------------------------------------------------------------
(* Bounds of the checked input space *)

\* field values are drawn from {NaN} \cup 0..MaxVal (weighted_average) and
\* {NaN} \cup -MaxVal..MaxVal (symmetric_cf_levels)
MaxVal == 1

\* weights are drawn from {NaN} \cup 0..MaxWeight
MaxWeight == 2

\* the weights are rescaled by k and 1/k for k in 2..MaxScale
MaxScale == 2

\* square roots are taken to 1/SqrtScale
SqrtScale == 1000

---------------------------------------------------------------------------
(* Floating point arithmetic as the array library performs it *)

NaN == <<0, 0>>

Zero == <<0, 1>>

One == <<1, 1>>

Abs(n) == IF n < 0 THEN -n ELSE n

Sign(n) == IF n < 0 THEN -1 ELSE IF n > 0 THEN 1 ELSE 0

RECURSIVE GCD(_, _)
GCD(a, b) == IF b = 0 THEN a ELSE GCD(b, a % b)

\* the number n/d; n/0 is NaN for n = 0 and a signed infinity otherwise
Norm(n, d) ==
    IF d = 0 THEN <<Sign(n), 0>>
    ELSE LET g == GCD(Abs(n), Abs(d))
         IN  <<(Sign(d) * n) \div g, Abs(d) \div g>>

Num(n) == <<n, 1>>

IsNaN(x) == x = NaN

IsInf(x) == x[2] = 0 /\ x[1] # 0

RAdd(a, b) ==
    IF IsNaN(a) \/ IsNaN(b) THEN NaN
    ELSE IF IsInf(a) THEN (IF IsInf(b) /\ b # a THEN NaN ELSE a)
    ELSE IF IsInf(b) THEN b
    ELSE LET g == GCD(a[2], b[2])
         IN  Norm(a[1] * (b[2] \div g) + b[1] * (a[2] \div g), a[2] * (b[2] \div g))

RMul(a, b) ==
    IF IsNaN(a) \/ IsNaN(b) THEN NaN
    ELSE IF IsInf(a) \/ IsInf(b) THEN <<Sign(a[1]) * Sign(b[1]), 0>>
    ELSE LET g == GCD(Abs(a[1]), b[2])
             h == GCD(Abs(b[1]), a[2])
         IN  Norm((a[1] \div g) * (b[1] \div h), (a[2] \div h) * (b[2] \div g))

RDiv(a, b) ==
    IF IsNaN(a) \/ IsNaN(b) THEN NaN
    ELSE IF IsInf(a) THEN (IF IsInf(b) THEN NaN ELSE <<a[1] * (IF b[1] < 0 THEN -1 ELSE 1), 0>>)
    ELSE IF IsInf(b) THEN Zero
    ELSE Norm(a[1] * b[2] * (IF b[1] < 0 THEN -1 ELSE 1), a[2] * Abs(b[1]))

RNeg(a) == <<-a[1], a[2]>>

\* a < b; every comparison with NaN is false
RLt(a, b) ==
    IF IsNaN(a) \/ IsNaN(b) THEN FALSE
    ELSE IF IsInf(a) \/ IsInf(b)
         THEN a # b /\ (a = <<-1, 0>> \/ b = <<1, 0>>)
    ELSE RAdd(a, RNeg(b))[1] < 0

RAbs(a) == <<Abs(a[1]), a[2]>>

---------------------------------------------------------------------------
(* DataArray operations of the array library used by the module *)

NLat(a) == Len(a.lat)

NLon(a) == Len(a.lon)

\* a.values.flatten(): the cells in row-major order
Flatten(a) ==
    [k \in 1..(NLat(a) * NLon(a)) |->
        a.values[((k - 1) \div NLon(a)) + 1][((k - 1) % NLon(a)) + 1]]

RECURSIVE NanSum(_)
NanSum(s) == IF s = <<>> THEN Zero
             ELSE IF IsNaN(Head(s)) THEN NanSum(Tail(s))
             ELSE RAdd(Head(s), NanSum(Tail(s)))

RECURSIVE NanCount(_)
NanCount(s) == IF s = <<>> THEN 0
               ELSE (IF IsNaN(Head(s)) THEN 0 ELSE 1) + NanCount(Tail(s))

\* a mean that yields 0 instead of NaN when nothing is left to average
NanMeanZeroEmpty(s) ==
    IF NanCount(s) = 0 THEN Zero ELSE RDiv(NanSum(s), Num(NanCount(s)))

\* mean with skipna: the sum of the non-missing values over their count,
\* NaN when there is none
NanMean(s) == RDiv(NanSum(s), Num(NanCount(s)))

\* a.mean(dim=['lat','lon'])
MeanLatLon(a) == NanMean(Flatten(a))

\* a band closed at both ends
InBandClosed(latitude, bnds) == latitude >= bnds[1] /\ latitude <= bnds[2]

\* (lat >= lat_bnds[0]) & (lat < lat_bnds[1])
InBand(latitude, bnds) == latitude >= bnds[1] /\ latitude < bnds[2]

\* a.where((a.lat >= bnds[0]) & (a.lat < bnds[1]))
WhereLat(a, bnds) ==
    [a EXCEPT !.values =
        [i \in 1..NLat(a) |-> [j \in 1..NLon(a) |->
            IF InBand(a.lat[i], bnds) THEN a.values[i][j] ELSE NaN]]]

\* a.where(w != 0); NaN != 0 is true
WhereNonzero(a, w) ==
    [a EXCEPT !.values =
        [i \in 1..NLat(a) |-> [j \in 1..NLon(a) |->
            IF w.values[i][j] # Zero THEN a.values[i][j] ELSE NaN]]]

\* a * b, cell by cell on the shared axes
Times(a, b) ==
    [a EXCEPT !.values =
        [i \in 1..NLat(a) |-> [j \in 1..NLon(a) |->
            RMul(a.values[i][j], b.values[i][j])]]]

\* a / x for a scalar x
Over(a, x) ==
    [a EXCEPT !.values =
        [i \in 1..NLat(a) |-> [j \in 1..NLon(a) |-> RDiv(a.values[i][j], x)]]]

---------------------------------------------------------------------------
(* weighted_average *)

DefaultLatBnds == <<-90, 90>>

\* the band restriction without the division by the mean
band_weights_unnormalized(w, bnds) ==
    IF bnds # DefaultLatBnds THEN WhereLat(w, bnds) ELSE w

\* the restriction and renormalization applied to the default band too
band_weights_always(w, bnds) ==
    LET r == WhereLat(w, bnds) IN Over(r, MeanLatLon(r))

\* lines 191-193: the weights after the band restriction and renormalization
band_weights(w, bnds) ==
    IF bnds # DefaultLatBnds
    THEN LET r == WhereLat(w, bnds) IN Over(r, MeanLatLon(r))
    ELSE w

\* lines 195-196: the masked product that is averaged
masked_product(d, w, bnds) ==
    LET w1 == band_weights(w, bnds)
    IN  WhereLat(WhereNonzero(Times(d, w1), w1), bnds)

weighted_average(d, w, bnds) == MeanLatLon(masked_product(d, w, bnds))

---------------------------------------------------------------------------
(* coslat_weight, coslat_area_avg *)

\* np.cos(np.deg2rad(lat)) on the latitudes used: cos(60 deg) is 1/2, and
\* the floating-point cosine of +-90 deg is a tiny positive number (about
\* 6.1e-17), never zero
CosDeg(latitude) ==
    CASE latitude = 0 -> One
      [] latitude \in {60, -60} -> <<1, 2>>
      [] latitude \in {90, -90} -> <<1, 10000>>

\* da * np.cos(np.deg2rad(lat))
coslat_weight(d) ==
    [d EXCEPT !.values =
        [i \in 1..NLat(d) |-> [j \in 1..NLon(d) |->
            RMul(d.values[i][j], CosDeg(d.lat[i]))]]]

\* (da.mean(dim='lon') * np.cos(np.deg2rad(lat))).mean(dim='lat')
coslat_area_avg(d) ==
    NanMean([i \in 1..NLat(d) |-> RMul(NanMean(d.values[i]), CosDeg(d.lat[i]))])

---------------------------------------------------------------------------
(* symmetric_cf_levels *)

RECURSIVE DropNaN(_)
DropNaN(s) == IF s = <<>> THEN <<>>
              ELSE IF IsNaN(Head(s)) THEN DropNaN(Tail(s))
              ELSE <<Head(s)>> \o DropNaN(Tail(s))

RECURSIVE Insert(_, _)
Insert(x, s) == IF s = <<>> THEN <<x>>
                ELSE IF RLt(Head(s), x) THEN <<Head(s)>> \o Insert(x, Tail(s))
                ELSE <<x>> \o s

RECURSIVE Sorted(_)
Sorted(s) == IF s = <<>> THEN <<>> ELSE Insert(Head(s), Sorted(Tail(s)))

\* np.nanmedian: the middle of the sorted non-missing values, the mean of
\* the two middle ones when their number is even, NaN when there is none
NanMedian(s) ==
    LET t == Sorted(DropNaN(s))
        n == Len(t)
    IN  IF n = 0 THEN NaN
        ELSE IF n % 2 = 1 THEN t[(n + 1) \div 2]
        ELSE RDiv(RAdd(t[n \div 2], t[(n \div 2) + 1]), Num(2))

\* the largest r in lo..hi with r * r <= n
RECURSIVE ISqrtIn(_, _, _)
ISqrtIn(n, lo, hi) ==
    IF lo = hi THEN lo
    ELSE LET mid == (lo + hi + 1) \div 2
         IN  IF mid * mid <= n THEN ISqrtIn(n, mid, hi) ELSE ISqrtIn(n, lo, mid - 1)

\* the square root of x >= 0, rounded down to a multiple of
\* 1 / (x[2] * SqrtScale); it is 0 only for x = 0
RSqrt(x) ==
    IF IsNaN(x) THEN NaN
    ELSE Norm(ISqrtIn(x[1] * x[2] * SqrtScale * SqrtScale, 0, 46340), x[2] * SqrtScale)

\* np.nanstd: the root of the mean squared deviation from the mean, over
\* the non-missing values
NanStd(s) ==
    LET m == NanMean(s)
    IN  RSqrt(NanMean([k \in 1..Len(s) |->
                 LET dev == RAdd(s[k], RNeg(m)) IN RMul(dev, dev)]))

\* np.linspace(start, stop, num) for num > 1
Linspace(start, stop, num) ==
    LET step == RDiv(RAdd(stop, RNeg(start)), Num(num - 1))
    IN  [i \in 1..num |->
            IF i = num THEN stop ELSE RAdd(RMul(Num(i - 1), step), start)]

\* the limit taken from the values themselves instead of their magnitudes
cf_lim_signed(flattened) ==
    RAdd(NanMedian(flattened), RMul(Num(3), NanStd(flattened)))

\* line 163: lim = np.nanmedian(abs(flattened)) + 3 * np.nanstd(flattened)
cf_lim(flattened) ==
    RAdd(NanMedian([k \in 1..Len(flattened) |-> RAbs(flattened[k])]),
         RMul(Num(3), NanStd(flattened)))

symmetric_cf_levels(d, n) ==
    LET flattened == Flatten(d)
        lim == cf_lim(flattened)
    IN  Linspace(RNeg(lim), lim, n)

---------------------------------------------------------------------------
(* The caller: inputs drawn from bounded sets, then one call *)

\* latitude axes: both poles; descending without a pole
LatAxes == {<<-90, 0, 90>>, <<60, 0, -60>>}

LonAxes == {<<0>>}

\* the default band, two ascending bands, and two bands with min >= max
LatBands == {DefaultLatBnds, <<0, 90>>, <<-90, 60>>, <<80, 10>>, <<0, 0>>}

FieldValues == {NaN} \cup {Num(v) : v \in 0..MaxVal}

WeightValues == {NaN} \cup {Num(v) : v \in 0..MaxWeight}

Grids(lats, lons, vals) ==
    {[lat |-> la, lon |-> lo, values |-> m] :
        la \in lats, lo \in lons,
        m \in UNION {[1..Len(la2) -> [1..Len(lo2) -> vals]] : la2 \in lats, lo2 \in lons}}

WellFormed(a) ==
    /\ DOMAIN a.values = 1..NLat(a)
    /\ \A i \in 1..NLat(a) : DOMAIN a.values[i] = 1..NLon(a)

Init ==
    /\ da \in {g \in Grids(LatAxes, LonAxes, FieldValues) : WellFormed(g)}
    /\ weights \in {g \in Grids({da.lat}, {da.lon}, WeightValues) : WellFormed(g)}
    /\ lat_bnds \in LatBands
    /\ nlevels = 0
    /\ called = {}
    /\ weighted = NaN
    /\ avg = NaN
    /\ levels = <<>>

\* weighted = weighted_average(da, weights, lat_bnds)
CallWeightedAverage ==
    /\ "weighted_average" \notin called
    /\ weighted' = weighted_average(da, weights, lat_bnds)
    /\ called' = called \cup {"weighted_average"}
    /\ UNCHANGED <<da, weights, lat_bnds, nlevels, avg, levels>>

Next == CallWeightedAverage

Spec == Init /\ [][Next]_vars

\* avg = coslat_area_avg(da)
CallCoslatAreaAvg ==
    /\ "coslat_area_avg" \notin called
    /\ avg' = coslat_area_avg(da)
    /\ called' = called \cup {"coslat_area_avg"}
    /\ UNCHANGED <<da, weights, lat_bnds, nlevels, weighted, levels>>

\* latitude axes with both poles, no pole, the south pole only
CosLatAxes == {<<-90, 0, 90>>, <<60, 0, -60>>, <<-90, 0, 60>>}

CosLonAxes == {<<0, 180>>}

Ones(d) == [d EXCEPT !.values = [i \in 1..NLat(d) |-> [j \in 1..NLon(d) |-> One]]]

\* a field, the cosine of its latitudes as the Weight Grid, the full globe
InitCos ==
    /\ da \in {g \in Grids(CosLatAxes, CosLonAxes, FieldValues) : WellFormed(g)}
    /\ weights = coslat_weight(Ones(da))
    /\ lat_bnds = DefaultLatBnds
    /\ nlevels = 0
    /\ called = {}
    /\ weighted = NaN
    /\ avg = NaN
    /\ levels = <<>>

NextCos == CallWeightedAverage \/ CallCoslatAreaAvg

SpecCos == InitCos /\ [][NextCos]_vars

\* levels = symmetric_cf_levels(da, n)
CallSymmetricCfLevels ==
    /\ "symmetric_cf_levels" \notin called
    /\ \E n \in {4, 5} :
          /\ nlevels' = n
          /\ levels' = symmetric_cf_levels(da, n)
    /\ called' = called \cup {"symmetric_cf_levels"}
    /\ UNCHANGED <<da, weights, lat_bnds, weighted, avg>>

LevelLatAxes == {<<-30, 30>>}

LevelValues == {NaN} \cup {Num(v) : v \in (-MaxVal)..MaxVal}

InitLevels ==
    /\ da \in {g \in Grids(LevelLatAxes, CosLonAxes, LevelValues) : WellFormed(g)}
    /\ weights = Ones(da)
    /\ lat_bnds = DefaultLatBnds
    /\ nlevels = 0
    /\ called = {}
    /\ weighted = NaN
    /\ avg = NaN
    /\ levels = <<>>

NextLevels == CallSymmetricCfLevels

SpecLevels == InitLevels /\ [][NextLevels]_vars

---------------------------------------------------------------------------
(* Vocabulary of the properties *)

Done == "weighted_average" \in called

Cells(a) == (1..NLat(a)) \X (1..NLon(a))

\* a with the cells of S replaced by x
SetCells(a, S, x) ==
    [a EXCEPT !.values =
        [i \in 1..NLat(a) |-> [j \in 1..NLon(a) |->
            IF <<i, j>> \in S THEN x ELSE a.values[i][j]]]]

\* a with every cell multiplied by the scalar k
Scaled(a, k) ==
    [a EXCEPT !.values =
        [i \in 1..NLat(a) |-> [j \in 1..NLon(a) |-> RMul(a.values[i][j], k)]]]

\* the half-open interval [lat_bnds[0], lat_bnds[1])
InInterval(c) == lat_bnds[1] <= da.lat[c[1]] /\ da.lat[c[1]] < lat_bnds[2]

\* the cells the final mean is taken over
Participants ==
    LET mp == masked_product(da, weights, lat_bnds)
    IN  {c \in Cells(da) : ~IsNaN(mp.values[c[1]][c[2]])}

Participates(c) == c \in Participants

\* the cell has a value and a weight that can contribute
Usable(c) ==
    /\ ~IsNaN(da.values[c[1]][c[2]])
    /\ ~IsNaN(weights.values[c[1]][c[2]])
    /\ weights.values[c[1]][c[2]] # Zero

PositiveScales == {Num(k) : k \in 2..MaxScale} \cup {<<1, k>> : k \in 2..MaxScale}

NonzeroScales == PositiveScales \cup {RNeg(k) : k \in PositiveScales}

---------------------------------------------------------------------------
(* Properties of weighted_average *)

NoMissingWeight == \A c \in Cells(da) : ~IsNaN(weights.values[c[1]][c[2]])

\* C1: full-globe equivalence. With the default band and a Weight Grid whose
\* cells all carry the same positive weight, weighted_average equals the
\* unweighted mean of the field over all latitude/longitude cells.
C1_FullGlobeEquivalence ==
    (/\ Done
     /\ lat_bnds = DefaultLatBnds
     /\ \E w \in WeightValues \ {NaN, Zero} :
           \A c \in Cells(da) : weights.values[c[1]][c[2]] = w)
        => weighted = MeanLatLon(da)

\* C2: constant-field preservation. For a field of all ones, a band holding
\* at least one grid latitude and nonnegative weights that are not all zero
\* inside the band, weighted_average equals 1.
C2_ConstantFieldPreserved ==
    (/\ Done
     /\ \A c \in Cells(da) : da.values[c[1]][c[2]] = One
     /\ NoMissingWeight
     /\ \E c \in Cells(da) : InInterval(c) /\ weights.values[c[1]][c[2]] # Zero)
        => weighted = One

\* C3: zero-weight exclusion. For every set S of cells, the call with the
\* weights of S set to zero returns what the call with the cells of S
\* removed (their weight excluded) returns.
C3_ZeroWeightExclusion ==
    Done =>
        \A S \in SUBSET Cells(da) :
            weighted_average(da, SetCells(weights, S, Zero), lat_bnds)
                = weighted_average(da, SetCells(weights, S, NaN), lat_bnds)

\* C4: missing-value exclusion. Replacing the value of one in-band cell by
\* the missing value gives what the call without that cell gives (the cell
\* in neither the field nor the weights).
C4_MissingValueExclusion ==
    Done =>
        \A c \in Cells(da) :
            InInterval(c) =>
                weighted_average(SetCells(da, {c}, NaN), weights, lat_bnds)
                    = weighted_average(SetCells(da, {c}, NaN),
                                       SetCells(weights, {c}, NaN), lat_bnds)

\* C5: weighted_average is total on empty domains: whenever
\* lat_bnds[0] >= lat_bnds[1] or every in-band cell has a zero or excluded
\* (NaN) weight, the call returns, and what it returns is the missing value.
EmptyDomain ==
    \/ lat_bnds[1] >= lat_bnds[2]
    \/ \A c \in Cells(da) :
          InInterval(c) => weights.values[c[1]][c[2]] \in {Zero, NaN}

C5_EmptyDomainMissing == (Done /\ EmptyDomain) => IsNaN(weighted)

\* an inverted band over a field and weights that are all present and
\* nonzero, and the call has returned the missing value
C5_Witness ==
    /\ Done
    /\ lat_bnds = <<80, 10>>
    /\ \A c \in Cells(da) : Usable(c) /\ da.values[c[1]][c[2]] = One
    /\ IsNaN(weighted)

C9_BandRenormalization ==
    LET m == MeanLatLon(WhereLat(weights, lat_bnds))
    IN  (Done /\ lat_bnds # DefaultLatBnds /\ ~IsNaN(m) /\ m # Zero) =>
            /\ MeanLatLon(band_weights(weights, lat_bnds)) = One
            /\ \A k \in PositiveScales :
                  weighted_average(da, Scaled(weights, k), lat_bnds) = weighted

\* a non-default band holding two cells of different nonzero weight, with
\* a result that is not missing
C9_Witness ==
    /\ Done
    /\ lat_bnds # DefaultLatBnds
    /\ ~IsNaN(weighted)
    /\ \E c1, c2 \in Cells(da) :
          /\ Participates(c1) /\ Participates(c2)
          /\ weights.values[c1[1]][c1[2]] # weights.values[c2[1]][c2[2]]

\* the plain mean of field * weight over the cells with latitude in
\* [-90, 90), weight != 0 and a product that is not missing
PlainMean ==
    NanMean([k \in 1..(NLat(da) * NLon(da)) |->
        LET i == ((k - 1) \div NLon(da)) + 1
            j == ((k - 1) % NLon(da)) + 1
        IN  IF -90 <= da.lat[i] /\ da.lat[i] < 90 /\ weights.values[i][j] # Zero
            THEN RMul(da.values[i][j], weights.values[i][j])
            ELSE NaN])

---------------------------------------------------------------------------
(* Properties of coslat_area_avg and symmetric_cf_levels *)

\* C7: coslat_area_avg is a special case of weighted_average. For a field
\* without missing values, coslat_area_avg(da) equals weighted_average with
\* the cosine of the latitude as weight and the default band.
C7_CoslatSpecialCase ==
    (/\ called = {"weighted_average", "coslat_area_avg"}
     /\ \A c \in Cells(da) : ~IsNaN(da.values[c[1]][c[2]])
     /\ weights = coslat_weight(Ones(da))
     /\ lat_bnds = DefaultLatBnds)
        => avg = weighted

LevelsDone == "symmetric_cf_levels" \in called

HasValue == \E c \in Cells(da) : ~IsNaN(da.values[c[1]][c[2]])

HasNonzeroValue == \E c \in Cells(da) : da.values[c[1]][c[2]] \notin {NaN, Zero}

\* 5 strictly increasing values, symmetric about a middle value of 0, that
\* end at median(|values|) + 3 * standard_deviation(values)
SymmetricLevels ==
    /\ Len(levels) = 5
    /\ \A i \in 1..4 : RLt(levels[i], levels[i + 1])
    /\ levels[1] = RNeg(levels[5])
    /\ levels[3] = Zero
    /\ levels[5] = RAdd(NanMedian([k \in 1..Len(Flatten(da)) |-> RAbs(Flatten(da)[k])]),
                        RMul(Num(3), NanStd(Flatten(da))))

\* C6 as stated: for every field with at least one non-missing value,
\* all-zero fields included, symmetric_cf_levels(field, 5) returns 5 strictly
\* increasing symmetric levels.
C6_SymmetricLevelsAnyField ==
    (LevelsDone /\ nlevels = 5 /\ HasValue) => SymmetricLevels

\* C6 amended: for every field with at least one non-missing value that is
\* not zero, symmetric_cf_levels(field, 5) returns exactly 5 strictly
\* increasing values with levels[0] = -levels[4], levels[2] = 0 and
\* levels[4] = median(|values|) + 3 * standard_deviation(values) over the
\* non-missing values.
C6_SymmetricLevelsNonzeroField ==
    (LevelsDone /\ nlevels = 5 /\ HasNonzeroValue) => SymmetricLevels

\* five levels of a field holding a missing value, a negative value and a
\* value of different magnitude
C6_Witness ==
    /\ LevelsDone
    /\ nlevels = 5
    /\ \E c \in Cells(da) : IsNaN(da.values[c[1]][c[2]])
    /\ \E c \in Cells(da) : da.values[c[1]][c[2]] = Num(-1)
    /\ \E c \in Cells(da) : da.values[c[1]][c[2]] = Zero
    /\ RLt(One, levels[5])

====
